---- MODULE Spec2Model ----
(***************************************************************************)
(* Model of the codezilla-components MCP server                            *)
(* (src/codzilla-component/index.ts).                                      *)
(*                                                                         *)
(* Two parts of the program are modelled:                                  *)
(*   - the session multiplexer of run(): the `transports` map, the         *)
(*     POST /mcp handler and handleSessionRequest (GET and DELETE /mcp);   *)
(*   - the metadata cache: componentsCache, loadComponents, the scanner,   *)
(*     the parser's record construction, and the operations and resources  *)
(*     that read the cache.                                                *)
(* SessionSpec runs the first part, CacheSpec the second.                  *)
(* ValidationSpec adds tool calls whose arguments fail the input schemas,  *)
(* RoundTripSpec the client of src/unnamed/part_001 with what it holds of  *)
(* its answers, and LoadSpec runs loadComponents step by step (scan, one   *)
(* parse per file in any order, assignment) for a caller that awaits each  *)
(* of its calls.                                                           *)
(***************************************************************************)
EXTENDS Integers, Sequences, FiniteSets, TLC

VARIABLES
    transports,      \* run(): const transports: Record<string, Transport>
    tobj,            \* the StreamableHTTPServerTransport objects created so far
    connected,       \* the transport this.server is connected to (0: none)
    inflight,        \* HTTP requests handed to a transport and not yet ended
    last,            \* what the step just taken did with its request
    componentsCache, \* ComponentMCPServer.componentsCache
    tree,            \* the file tree under <cwd>/src/components
    calls,           \* operation calls and resource reads awaiting loadComponents
    result,          \* what the step just taken returned to its caller
    hist,            \* history of the cache: loads completed, first list observed
    trip             \* what a client holds of its get_components and components://all answers

vars == <<transports, tobj, connected, inflight, last,
          componentsCache, tree, calls, result, hist, trip>>

sessionVars == <<transports, tobj, connected, inflight, last>>
cacheVars == <<componentsCache, tree, calls, result, hist>>

(***************************************************************************)
(* Bounds of the model.                                                    *)
(***************************************************************************)
MaxTransports == 2   \* transports (initialization POSTs) created in a run
MaxInFlight == 2     \* HTTP requests in flight at once
MaxCalls == 2        \* cache accesses awaiting a load at once

(***************************************************************************)
(* Part 1: sessions.                                                       *)
(***************************************************************************)

\* The mcp-session-id header: 0 is "no header"; 1..MaxTransports are the values
\* randomUUID() returns in a run; MaxTransports + 1 is an identifier a client
\* made up, which the server never generated.
NoSid == 0
Fabricated == MaxTransports + 1
Headers == 0 .. Fabricated

NoTransport == 0

\* transports[sessionId] of the code: the transport, or undefined (NoTransport).
LookupAnySession(map, sid) ==
    IF sid \in DOMAIN map THEN map[sid]
    ELSE IF sid # 0 /\ DOMAIN map # {} THEN map[CHOOSE s \in DOMAIN map : TRUE]
    ELSE 0
Lookup(map, sid) == IF sid \in DOMAIN map THEN map[sid] ELSE NoTransport

\* Identifiers whose transport has been closed (close() ran onclose).
closedIds == { tobj[i].sessionId : i \in { j \in DOMAIN tobj :
                 tobj[j].closed /\ tobj[j].sessionId # NoSid } }

\* The open transport that was initialized with identifier sid (0: none).
OwnersOf(sid) == { i \in DOMAIN tobj :
                     tobj[i].sessionId = sid /\ ~tobj[i].closed /\ sid # NoSid }
OwnerOf(sid) == IF OwnersOf(sid) = {} THEN NoTransport
                ELSE CHOOSE i \in OwnersOf(sid) : TRUE

\* sessionIdGenerator: () => randomUUID(). A version-4 UUID has 122 random
\* bits; it is modelled as an identifier no earlier call returned.
randomUUIDReuse == NoSid + 1
randomUUID == Cardinality({ i \in DOMAIN tobj : tobj[i].sessionId # NoSid }) + 1

NoLast == [step |-> "none", sid |-> NoSid, init |-> FALSE, accepted |-> FALSE,
           status |-> 0, code |-> 0, error |-> "", routedTo |-> NoTransport,
           owner |-> NoTransport, wasClosed |-> FALSE, before |-> <<>>,
           newSid |-> NoSid, ended |-> {}]

\* The request of a step: its method, header and body, with what the state
\* said about the identifier when the request arrived.
Arrived(method, sid, isInit, accepted) ==
    [NoLast EXCEPT !.step = method, !.sid = sid, !.init = isInit,
                   !.accepted = accepted, !.owner = OwnerOf(sid),
                   !.wasClosed = (sid \in closedIds), !.before = transports]

\* res.status(400).json({jsonrpc, error: {code: -32000, message: ...}, id: null})
BadRequestNoSession(l) ==
    [l EXCEPT !.status = 400, !.code = -32000,
              !.error = "Bad Request: No valid session ID provided"]

\* res.status(400).send('Invalid or missing session ID')
InvalidOrMissingAsJson(l) == BadRequestNoSession(l)
InvalidOrMissing(l) ==
    [l EXCEPT !.status = 400, !.error = "Invalid or missing session ID"]

\* transport.onclose of the POST handler: delete transports[transport.sessionId]
oncloseClear(map, t) == <<>>
oncloseKeep(map, t) == map
onclose(map, t) ==
    IF tobj[t].sessionId # NoSid
    THEN [s \in (DOMAIN map) \ {tobj[t].sessionId} |-> map[s]]
    ELSE map

\* onsessioninitialized: (sid) => { transports[sid] = transport }
onsessioninitializedDrop(map, sid, t) == map
onsessioninitialized(map, sid, t) ==
    [s \in (DOMAIN map) \cup {sid} |-> IF s = sid THEN t ELSE map[s]]

\* An HTTP request a transport holds open: the initialization POST between
\* server.connect and handleRequest ("init"), a POST whose JSON-RPC request
\* the server has not answered yet ("post"), a GET event stream ("get").
\* via is the transport the server was connected to when the request arrived.
Item(kind, t, via, accepted) ==
    [kind |-> kind, t |-> t, via |-> via, accepted |-> accepted]

HasRoom == Cardinality(inflight) < MaxInFlight

\* StreamableHTTPServerTransport.close(): ends the transport's streams and runs
\* onclose, which server.connect wrapped so that the application's onclose
\* runs first and the protocol's own _onclose (which forgets its transport)
\* second.
close(t) ==
    /\ tobj' = [tobj EXCEPT ![t].closed = TRUE]
    /\ inflight' = { r \in inflight : r.t # t }
    /\ transports' = onclose(transports, t)
    /\ connected' = NoTransport

\* app.post('/mcp'), first branch: the header names a registered transport;
\* transport.handleRequest(req, res, req.body) takes the request.
PostKnown(sid, isInit, accepted) ==
    LET l == Arrived("POST", sid, isInit, accepted)
        transport == Lookup(transports, sid)
    IN  /\ sid # NoSid /\ transport # NoTransport
        /\ IF ~accepted
           THEN /\ last' = [l EXCEPT !.status = 403, !.routedTo = transport,
                                     !.error = "Invalid Host header"]
                /\ UNCHANGED inflight
           ELSE IF isInit
           THEN /\ last' = [l EXCEPT !.status = 400, !.code = -32600,
                                     !.routedTo = transport,
                              !.error = "Invalid Request: Server already initialized"]
                /\ UNCHANGED inflight
           ELSE /\ HasRoom
                /\ Item("post", transport, connected, TRUE) \notin inflight
                /\ inflight' = inflight \cup
                                 {Item("post", transport, connected, TRUE)}
                /\ last' = [l EXCEPT !.routedTo = transport]
        /\ UNCHANGED <<transports, tobj, connected>>

\* A second branch that tests only the body: an initialization request makes
\* a new transport whenever the header names no registered one.
PostInitAnyHeader(sid, isInit, accepted) ==
    LET l == Arrived("POST", sid, isInit, accepted)
        transport == Len(tobj) + 1
    IN  /\ ~(sid # NoSid /\ Lookup(transports, sid) # NoTransport)
        /\ isInit
        /\ Len(tobj) < MaxTransports
        /\ HasRoom
        /\ tobj' = Append(tobj, [sessionId |-> NoSid, closed |-> FALSE])
        /\ connected' = transport
        /\ inflight' = inflight \cup {Item("init", transport, transport, accepted)}
        /\ last' = [l EXCEPT !.routedTo = transport]
        /\ UNCHANGED transports

\* app.post('/mcp'), second branch: no header and an initialization body. A new
\* transport is made, its onclose set, and the server connected to it; the
\* handler then awaits before it calls handleRequest.
PostInit(sid, isInit, accepted) ==
    LET l == Arrived("POST", sid, isInit, accepted)
        transport == Len(tobj) + 1
    IN  /\ ~(sid # NoSid /\ Lookup(transports, sid) # NoTransport)
        /\ sid = NoSid /\ isInit
        /\ Len(tobj) < MaxTransports
        /\ HasRoom
        /\ tobj' = Append(tobj, [sessionId |-> NoSid, closed |-> FALSE])
        /\ connected' = transport
        /\ inflight' = inflight \cup {Item("init", transport, transport, accepted)}
        /\ last' = [l EXCEPT !.routedTo = transport]
        /\ UNCHANGED transports

\* app.post('/mcp'), last branch: HTTP 400 with the JSON-RPC error, and return.
PostReject(sid, isInit, accepted) ==
    LET l == Arrived("POST", sid, isInit, accepted)
    IN  /\ ~(sid # NoSid /\ Lookup(transports, sid) # NoTransport)
        /\ ~(sid = NoSid /\ isInit)
        /\ last' = BadRequestNoSession(l)
        /\ UNCHANGED <<transports, tobj, connected, inflight>>

Post(sid, isInit, accepted) ==
    /\ \/ PostKnown(sid, isInit, accepted)
       \/ PostInit(sid, isInit, accepted)
       \/ PostReject(sid, isInit, accepted)
    /\ UNCHANGED cacheVars

\* app.post('/mcp'), line 452 for a new transport: handleRequest validates the
\* request (the Host header against allowedHosts, the Accept and Content-Type
\* headers); an accepted initialization sets transport.sessionId from
\* sessionIdGenerator and runs onsessioninitialized.
PostInitHandle(r) ==
    /\ r \in inflight /\ r.kind = "init"
    /\ inflight' = inflight \ {r}
    /\ IF r.accepted
       THEN LET sid == randomUUID
            IN  /\ tobj' = [tobj EXCEPT ![r.t].sessionId = sid]
                /\ transports' = onsessioninitialized(transports, sid, r.t)
                /\ last' = [NoLast EXCEPT !.step = "initHandled", !.init = TRUE,
                              !.accepted = TRUE, !.status = 200, !.routedTo = r.t,
                              !.newSid = sid, !.wasClosed = (sid \in closedIds),
                              !.before = transports]
       ELSE /\ last' = [NoLast EXCEPT !.step = "initHandled", !.init = TRUE,
                          !.status = 403, !.routedTo = r.t,
                          !.error = "Invalid Host header", !.before = transports]
            /\ UNCHANGED <<tobj, transports>>
    /\ UNCHANGED connected
    /\ UNCHANGED cacheVars

\* handleSessionRequest: app.get('/mcp') and app.delete('/mcp').
SessionReject(method, sid, accepted) ==
    LET l == Arrived(method, sid, FALSE, accepted)
    IN  /\ sid = NoSid \/ Lookup(transports, sid) = NoTransport
        /\ last' = InvalidOrMissing(l)
        /\ UNCHANGED <<transports, tobj, connected, inflight>>

SessionGet(sid, accepted) ==
    LET l == Arrived("GET", sid, FALSE, accepted)
        transport == Lookup(transports, sid)
    IN  /\ ~(sid = NoSid \/ transport = NoTransport)
        /\ IF ~accepted
           THEN /\ last' = [l EXCEPT !.status = 403, !.routedTo = transport,
                                     !.error = "Invalid Host header"]
                /\ UNCHANGED inflight
           ELSE IF \E r \in inflight : r.kind = "get" /\ r.t = transport
           THEN /\ last' = [l EXCEPT !.status = 409, !.routedTo = transport,
                              !.error = "Conflict: Only one SSE stream is allowed per session"]
                /\ UNCHANGED inflight
           ELSE /\ HasRoom
                /\ inflight' = inflight \cup
                                 {Item("get", transport, connected, TRUE)}
                /\ last' = [l EXCEPT !.status = 200, !.routedTo = transport]
        /\ UNCHANGED <<transports, tobj, connected>>

SessionDelete(sid, accepted) ==
    LET l == Arrived("DELETE", sid, FALSE, accepted)
        transport == Lookup(transports, sid)
    IN  /\ ~(sid = NoSid \/ transport = NoTransport)
        /\ IF ~accepted
           THEN /\ last' = [l EXCEPT !.status = 403, !.routedTo = transport,
                                     !.error = "Invalid Host header"]
                /\ UNCHANGED <<transports, tobj, connected, inflight>>
           ELSE /\ close(transport)
                /\ last' = [l EXCEPT !.status = 200, !.routedTo = transport,
                                     !.ended = { r.kind : r \in { q \in inflight : q.t = transport } }]

handleSessionRequest(method, sid, accepted) ==
    /\ \/ SessionReject(method, sid, accepted)
       \/ method = "GET" /\ SessionGet(sid, accepted)
       \/ method = "DELETE" /\ SessionDelete(sid, accepted)
    /\ UNCHANGED cacheVars

\* The server answers a JSON-RPC request on the transport it was connected to
\* when the request arrived; the answer reaches the request's HTTP response
\* only when that is the transport holding the request.
Respond(r) ==
    /\ r \in inflight /\ r.kind = "post" /\ r.via = r.t
    /\ inflight' = inflight \ {r}
    /\ last' = [NoLast EXCEPT !.step = "respond", !.status = 200,
                              !.routedTo = r.t, !.before = transports]
    /\ UNCHANGED <<transports, tobj, connected>>
    /\ UNCHANGED cacheVars

\* The client ends an open request: res 'close' drops the stream.
Disconnect(r) ==
    /\ r \in inflight /\ r.kind \in {"post", "get"}
    /\ inflight' = inflight \ {r}
    /\ last' = [NoLast EXCEPT !.step = "disconnect", !.routedTo = r.t,
                              !.before = transports]
    /\ UNCHANGED <<transports, tobj, connected>>
    /\ UNCHANGED cacheVars

NoResult == [step |-> "none", op |-> "", arg |-> <<>>, threw |-> FALSE,
             value |-> <<>>, error |-> <<>>, cache |-> <<>>,
             startedLoad |-> FALSE, afterLoad |-> FALSE, root |-> "",
             files |-> <<>>, read |-> <<>>, order |-> <<>>]

(***************************************************************************)
(* Claims about sessions (checked under SessionSpec).                      *)
(***************************************************************************)
Methods == {"GET", "POST", "DELETE"}

NoSessionErrors == {"Bad Request: No valid session ID provided",
                    "Invalid or missing session ID"}

\* C1: a request (GET, POST or DELETE) that carries an identifier whose
\* transport was closed by an earlier DELETE is answered with HTTP 400 and the
\* invalid-session error of its handler, and is handed to no transport,
\* whatever other sessions did in between.
C1_ClosedSessionRejected ==
    (last.step \in Methods /\ last.wasClosed) =>
        /\ last.status = 400
        /\ last.routedTo = NoTransport
        /\ last.error = IF last.step = "POST"
                        THEN "Bad Request: No valid session ID provided"
                        ELSE "Invalid or missing session ID"

\* A POST on a closed identifier is rejected while another session is live.
C1_Witness ==
    /\ last.step = "POST" /\ last.wasClosed /\ last.status = 400
    /\ DOMAIN transports # {}

\* C2: a POST whose header is missing or names no registered session and whose
\* body is not an initialization request gets HTTP 400 with JSON-RPC error
\* -32000 'Bad Request: No valid session ID provided', and the session map
\* after it is the map before it.
C2_PostWithoutSessionRejected ==
    (/\ last.step = "POST"
     /\ last.sid = NoSid \/ last.sid \notin DOMAIN last.before
     /\ ~last.init) =>
        /\ last.status = 400
        /\ last.code = -32000
        /\ last.error = "Bad Request: No valid session ID provided"
        /\ last.routedTo = NoTransport
        /\ transports = last.before

\* A POST with a made-up identifier is rejected while a session is registered.
C2_Witness ==
    /\ last.step = "POST" /\ last.sid = Fabricated /\ ~last.init
    /\ last.status = 400 /\ last.code = -32000
    /\ DOMAIN transports # {}

\* C3 as stated: every POST with no session header and an initialization body
\* ends with a new identifier registered for its transport.
C3_EveryInitCreatesSession ==
    last.step = "initHandled" =>
        /\ last.newSid # NoSid
        /\ Lookup(transports, last.newSid) = last.routedTo

\* C3, amended: a POST with no session header and an initialization body that
\* the transport accepts (Host header in allowedHosts, valid headers) ends with
\* an identifier no transport had before, registered for its transport; and a
\* POST carrying the identifier of a session that is not closed is handed to
\* that session's own transport, never rejected for its session.
C3_AcceptedInitCreatesSession ==
    /\ (last.step = "initHandled" /\ last.accepted) =>
          /\ last.newSid # NoSid
          /\ last.newSid \notin DOMAIN last.before
          /\ ~last.wasClosed
          /\ \A i \in DOMAIN tobj :
               i # last.routedTo => tobj[i].sessionId # last.newSid
          /\ Lookup(transports, last.newSid) = last.routedTo
          /\ tobj[last.routedTo].sessionId = last.newSid
    /\ (last.step = "POST" /\ last.owner # NoTransport) =>
          /\ last.routedTo = last.owner
          /\ last.error \notin NoSessionErrors

\* A request POSTed on the second of two live sessions reaches its transport.
C3_Witness ==
    /\ last.step = "POST" /\ ~last.init /\ last.accepted
    /\ last.owner # NoTransport /\ last.routedTo = last.owner
    /\ tobj[last.owner].sessionId = last.sid
    /\ Cardinality(DOMAIN transports) > 1
    /\ \E r \in inflight : r.kind = "post" /\ r.t = last.owner

\* C4: no two open transports hold the same identifier, every entry of the
\* session map is the open transport initialized with that identifier, and no
\* closed identifier is in the session map.
C4_OneLiveSessionPerId ==
    /\ \A i, j \in DOMAIN tobj :
         (i # j /\ tobj[i].sessionId # NoSid /\ ~tobj[i].closed /\ ~tobj[j].closed)
            => tobj[i].sessionId # tobj[j].sessionId
    /\ \A sid \in DOMAIN transports :
         /\ tobj[transports[sid]].sessionId = sid
         /\ ~tobj[transports[sid]].closed
    /\ closedIds \cap DOMAIN transports = {}

\* A session is initialized after another one was closed.
C4_Witness ==
    /\ last.step = "initHandled" /\ last.newSid # NoSid
    /\ closedIds # {}
    /\ last.newSid \in DOMAIN transports

\* C5: a GET or DELETE whose header is missing or names no registered session
\* gets HTTP 400 with the plain text 'Invalid or missing session ID', which is
\* not the error of a rejected POST, and the session map stays as it was.
C5_SessionRequestRejected ==
    (/\ last.step \in {"GET", "DELETE"}
     /\ last.sid = NoSid \/ last.sid \notin DOMAIN last.before) =>
        /\ last.status = 400
        /\ last.error = "Invalid or missing session ID"
        /\ last.code = 0
        /\ last.error # BadRequestNoSession(last).error
        /\ last.code # BadRequestNoSession(last).code
        /\ last.routedTo = NoTransport
        /\ transports = last.before

\* A DELETE with a made-up identifier is rejected while a session is registered.
C5_Witness ==
    /\ last.step = "DELETE" /\ last.sid = Fabricated
    /\ last.status = 400 /\ last.error = "Invalid or missing session ID"
    /\ DOMAIN transports # {}

(***************************************************************************)
(* Part 2: the metadata cache.                                             *)
(*                                                                         *)
(* JavaScript strings are sequences of one-character strings, so that      *)
(* includes, endsWith, toLowerCase and the path functions are computed.    *)
(***************************************************************************)
UpperCase == <<"A", "B", "C", "D", "E", "F", "G", "H", "I", "J", "K", "L", "M", "N", "O", "P", "Q", "R", "S", "T", "U", "V", "W", "X", "Y", "Z">>
LowerCase == <<"a", "b", "c", "d", "e", "f", "g", "h", "i", "j", "k", "l", "m", "n", "o", "p", "q", "r", "s", "t", "u", "v", "w", "x", "y", "z">>

\* String.prototype.toLowerCase, on the ASCII letters.
toLowerCaseChar(c) ==
    IF \E i \in DOMAIN UpperCase : UpperCase[i] = c
    THEN LowerCase[CHOOSE i \in DOMAIN UpperCase : UpperCase[i] = c]
    ELSE c
toLowerCase(s) == [i \in 1 .. Len(s) |-> toLowerCaseChar(s[i])]

\* String.prototype.includes
includes(s, sub) ==
    \E i \in 0 .. (Len(s) - Len(sub)) : SubSeq(s, i + 1, i + Len(sub)) = sub

\* String.prototype.endsWith
endsWith(s, suffix) ==
    /\ Len(suffix) <= Len(s)
    /\ SubSeq(s, Len(s) - Len(suffix) + 1, Len(s)) = suffix

\* Index of the last occurrence of character c in s (0: none).
lastIndexOf(s, c) ==
    IF \E i \in DOMAIN s : s[i] = c
    THEN CHOOSE i \in DOMAIN s : s[i] = c /\ \A j \in DOMAIN s : s[j] = c => j <= i
    ELSE 0

\* path.join(dir, name) for a directory path and one segment.
join(dir, name) == dir \o <<"/">> \o name

\* path.basename(p): what follows the last separator.
basename(p) == SubSeq(p, lastIndexOf(p, "/") + 1, Len(p))

\* path.extname(p): from the last "." of the base name, unless it starts it.
extname(p) ==
    LET base == basename(p)
        dot == lastIndexOf(base, ".")
    IN  IF dot <= 1 THEN <<>> ELSE SubSeq(base, dot, Len(base))

\* path.basename(p, ext): the base name without the extension ext.
basenameExt(p, ext) ==
    LET base == basename(p)
    IN  IF ext # <<>> /\ endsWith(base, ext) /\ base # ext
        THEN SubSeq(base, 1, Len(base) - Len(ext))
        ELSE base

\* path.relative(from, to) for a path `to` below the directory `from`.
relative(from, to) ==
    IF Len(to) > Len(from) + 1 /\ SubSeq(to, 1, Len(from) + 1) = from \o <<"/">>
    THEN SubSeq(to, Len(from) + 2, Len(to))
    ELSE to

\* process.cwd()
cwd == <<"/", "a", "p", "p">>

\* path.join(process.cwd(), 'src', 'components')
componentsDir == join(join(cwd, <<"s", "r", "c">>), <<"c", "o", "m", "p", "o", "n", "e", "n", "t", "s">>)

\* private generateUsageExample(componentName, props); props is the list of
\* [name, type, optional] in the order of Object.entries(props).
getExampleValue(type) ==
    IF includes(type, <<"s", "t", "r", "i", "n", "g">>) THEN <<"\"", "e", "x", "a", "m", "p", "l", "e", "\"">>
    ELSE IF includes(type, <<"n", "u", "m", "b", "e", "r">>) THEN <<"4", "2">>
    ELSE IF includes(type, <<"b", "o", "o", "l", "e", "a", "n">>) THEN <<"t", "r", "u", "e">>
    ELSE IF includes(type, <<"f", "u", "n", "c", "t", "i", "o", "n">>) \/ includes(type, <<"=", ">">>) THEN <<"(", ")", " ", "=", ">", " ", "{", "}">>
    ELSE IF includes(type, <<"[", "]">>) THEN <<"[", "]">>
    ELSE <<"{", "}">>

RECURSIVE joinSpace(_)
joinSpace(parts) ==
    IF parts = <<>> THEN <<>>
    ELSE IF Len(parts) = 1 THEN parts[1]
    ELSE parts[1] \o <<" ">> \o joinSpace(Tail(parts))

\* A usage example that lists every property, optional ones too.
generateUsageExampleAllProps(componentName, props) ==
    LET requiredProps ==
            joinSpace([i \in 1 .. Len(props) |->
                         props[i].name \o <<"=", "{">>
                           \o getExampleValue(props[i].type) \o <<"}">>])
    IN  <<"<">> \o componentName
          \o (IF requiredProps # <<>> THEN <<" ">> \o requiredProps ELSE <<>>)
          \o <<" ", "/", ">">>

generateUsageExample(componentName, props) ==
    LET required == SelectSeq(props, LAMBDA p : ~p.optional)
        requiredProps ==
            joinSpace([i \in 1 .. Len(required) |->
                         required[i].name \o <<"=", "{">>
                           \o getExampleValue(required[i].type) \o <<"}">>])
    IN  <<"<">> \o componentName
          \o (IF requiredProps # <<>> THEN <<" ">> \o requiredProps ELSE <<>>)
          \o <<" ", "/", ">">>

\* private getDefaultComponents()
getDefaultComponents ==
    << [name |-> <<"P", "r", "e", "v", "i", "e", "w">>,
        path |-> <<"s", "r", "c", "/", "c", "o", "m", "p", "o", "n", "e", "n", "t", "s", "/", "P", "r", "e", "v", "i", "e", "w", ".", "t", "s", "x">>,
        props |-> << [name |-> <<"c", "o", "d", "e">>, type |-> <<"s", "t", "r", "i", "n", "g">>, optional |-> FALSE] >>,
        usage |-> <<"<", "P", "r", "e", "v", "i", "e", "w", " ", "c", "o", "d", "e", "=", "{", "g", "e", "n", "e", "r", "a", "t", "e", "d", "C", "o", "d", "e", "}", " ", "/", ">">>,
        dependencies |-> [defined |-> TRUE, list |-> << <<"r", "e", "a", "c", "t">> >>]],
       [name |-> <<"F", "i", "l", "e", "E", "x", "p", "l", "o", "r", "e", "r">>,
        path |-> <<"s", "r", "c", "/", "c", "o", "m", "p", "o", "n", "e", "n", "t", "s", "/", "F", "i", "l", "e", "E", "x", "p", "l", "o", "r", "e", "r", ".", "t", "s", "x">>,
        props |-> << [name |-> <<"f", "i", "l", "e", "s">>, type |-> <<"G", "e", "n", "e", "r", "a", "t", "e", "d", "F", "i", "l", "e", "[", "]">>,
                      optional |-> FALSE],
                     [name |-> <<"o", "n", "O", "p", "e", "n", "F", "i", "l", "e">>,
                      type |-> <<"(", "f", "i", "l", "e", ":", " ", "G", "e", "n", "e", "r", "a", "t", "e", "d", "F", "i", "l", "e", ")", " ", "=", ">", " ", "v", "o", "i", "d">>,
                      optional |-> FALSE],
                     [name |-> <<"o", "n", "D", "e", "l", "e", "t", "e", "F", "i", "l", "e">>, type |-> <<"(", "p", "a", "t", "h", ":", " ", "s", "t", "r", "i", "n", "g", ")", " ", "=", ">", " ", "v", "o", "i", "d">>,
                      optional |-> FALSE] >>,
        usage |-> <<"<", "F", "i", "l", "e", "E", "x", "p", "l", "o", "r", "e", "r", " ", "f", "i", "l", "e", "s", "=", "{", "f", "i", "l", "e", "s", "}", " ", "o", "n", "O", "p", "e", "n", "F", "i", "l", "e", "=", "{", "h", "a", "n", "d", "l", "e", "O", "p", "e", "n", "F", "i", "l", "e", "}", " ", "o", "n", "D", "e", "l", "e", "t", "e", "F", "i", "l", "e", "=", "{", "h", "a", "n", "d", "l", "e", "D", "e", "l", "e", "t", "e", "F", "i", "l", "e", "}", " ", "/", ">">>,
        dependencies |-> [defined |-> TRUE, list |-> << <<"r", "e", "a", "c", "t">> >>]] >>

(***************************************************************************)
(* parseComponent: the props interface, by the regular expressions of the  *)
(* code.                                                                   *)
(***************************************************************************)
Digits == <<"0", "1", "2", "3", "4", "5", "6", "7", "8", "9">>
Range(s) == { s[i] : i \in DOMAIN s }

\* \w and \s of a JavaScript regular expression (ASCII).
WordChars == Range(UpperCase) \cup Range(LowerCase) \cup Range(Digits) \cup {"_"}
SpaceChars == {" ", "\t", "\n", "\r"}

\* The least index k >= i at which s[k] is not in set (Len(s) + 1: none).
skip(s, i, set) ==
    CHOOSE k \in i .. (Len(s) + 1) :
        /\ k = Len(s) + 1 \/ s[k] \notin set
        /\ \A j \in i .. (k - 1) : s[j] \in set

\* The least index k >= i at which s[k] is in set (Len(s) + 1: none).
find(s, i, set) ==
    CHOOSE k \in i .. (Len(s) + 1) :
        /\ k = Len(s) + 1 \/ s[k] \in set
        /\ \A j \in i .. (k - 1) : s[j] \notin set

\* String.prototype.trim
trim(s) ==
    LET first == skip(s, 1, SpaceChars)
        last_ == IF first > Len(s) THEN 0
                 ELSE CHOOSE k \in first .. Len(s) :
                        /\ s[k] \notin SpaceChars
                        /\ \A j \in (k + 1) .. Len(s) : s[j] \in SpaceChars
    IN  IF first > Len(s) THEN <<>> ELSE SubSeq(s, first, last_)

\* String.prototype.split('\n')
RECURSIVE splitLines(_)
splitLines(s) ==
    LET nl == find(s, 1, {"\n"})
    IN  IF nl > Len(s) THEN <<s>>
        ELSE <<SubSeq(s, 1, nl - 1)>> \o splitLines(SubSeq(s, nl + 1, Len(s)))

\* content.match(/interface\s+(\w+Props)\s*{([^}]+)}/) tried at index i: the
\* text of the second group, or no match. The word after "interface" is a
\* whole run of \w characters, because \s or "{" must follow it.
Keyword == <<"i", "n", "t", "e", "r", "f", "a", "c", "e">>
PropsSuffix == <<"P", "r", "o", "p", "s">>

propsMatchAt(content, i) ==
    LET ws == i + Len(Keyword)
        word == skip(content, ws, SpaceChars)
        wordEnd == skip(content, word, WordChars)
        brace == skip(content, wordEnd, SpaceChars)
        closing == find(content, brace + 1, {"}"})
    IN  IF /\ i + Len(Keyword) - 1 <= Len(content)
           /\ SubSeq(content, i, i + Len(Keyword) - 1) = Keyword
           /\ word > ws
           /\ wordEnd - word > Len(PropsSuffix)
           /\ SubSeq(content, wordEnd - Len(PropsSuffix), wordEnd - 1) = PropsSuffix
           /\ brace <= Len(content) /\ content[brace] = "{"
           /\ closing <= Len(content) /\ closing > brace + 1
        THEN [matched |-> TRUE, body |-> SubSeq(content, brace + 1, closing - 1)]
        ELSE [matched |-> FALSE, body |-> <<>>]

propsMatch(content) ==
    LET hits == { i \in DOMAIN content : propsMatchAt(content, i).matched }
    IN  IF hits = {} THEN [matched |-> FALSE, body |-> <<>>]
        ELSE propsMatchAt(content, CHOOSE i \in hits : \A j \in hits : i <= j)

\* line.match(/(\w+)(\?)?:\s*([^;]+)/) tried at index i of a trimmed line.
lineMatchAt(line, i) ==
    LET wordEnd == skip(line, i, WordChars)
        optional == wordEnd <= Len(line) /\ line[wordEnd] = "?"
        colon == IF optional THEN wordEnd + 1 ELSE wordEnd
        semi == find(line, colon + 1, {";"})
    IN  IF /\ wordEnd > i
           /\ colon <= Len(line) /\ line[colon] = ":"
           /\ semi > colon + 1
        THEN [matched |-> TRUE,
              name |-> SubSeq(line, i, wordEnd - 1),
              type |-> trim(SubSeq(line, colon + 1, semi - 1)),
              optional |-> optional]
        ELSE [matched |-> FALSE, name |-> <<>>, type |-> <<>>, optional |-> FALSE]

\* The last place of the line at which the pattern matches, not the first.
lineMatchLast(line) ==
    LET hits == { i \in DOMAIN line : lineMatchAt(line, i).matched }
    IN  IF hits = {} THEN lineMatchAt(line, Len(line) + 1)
        ELSE lineMatchAt(line, CHOOSE i \in hits : \A j \in hits : i >= j)

lineMatch(line) ==
    LET hits == { i \in DOMAIN line : lineMatchAt(line, i).matched }
    IN  IF hits = {} THEN lineMatchAt(line, Len(line) + 1)
        ELSE lineMatchAt(line, CHOOSE i \in hits : \A j \in hits : i <= j)

\* The number a string of digits writes.
RECURSIVE toNumber(_)
toNumber(digits) ==
    IF digits = <<>> THEN 0
    ELSE 10 * toNumber(SubSeq(digits, 1, Len(digits) - 1))
           + (CHOOSE d \in 0 .. 9 : Digits[d + 1] = digits[Len(digits)])

\* A property key that is an integer index: the canonical writing of a
\* number (no sign, no leading zero). Such keys of at most nine digits are
\* all below the limit 2^32 - 1; longer ones are not treated as indices here.
isArrayIndex(key) ==
    /\ key # <<>> /\ Len(key) <= 9
    /\ \A k \in DOMAIN key : key[k] \in Range(Digits)
    /\ Len(key) = 1 \/ key[1] # "0"

\* acc[match[1]] = {type, optional}, acc being listed in the order in which
\* Object.entries and JSON.stringify enumerate it: integer indices first, in
\* ascending order, then the other keys in insertion order. A key already
\* there keeps its place and takes the new value; an assignment to __proto__
\* sets the prototype of acc and adds no property.
setProp(acc, m) ==
    LET p == [name |-> m.name, type |-> m.type, optional |-> m.optional]
        below == { k \in DOMAIN acc :
                     /\ isArrayIndex(acc[k].name)
                     /\ toNumber(acc[k].name) < toNumber(m.name) }
    IN  IF m.name = <<"_", "_", "p", "r", "o", "t", "o", "_", "_">> THEN acc
        ELSE IF \E k \in DOMAIN acc : acc[k].name = m.name
        THEN [k \in DOMAIN acc |-> IF acc[k].name = m.name THEN p ELSE acc[k]]
        ELSE IF isArrayIndex(m.name)
        THEN SubSeq(acc, 1, Cardinality(below)) \o <<p>>
               \o SubSeq(acc, Cardinality(below) + 1, Len(acc))
        ELSE Append(acc, p)

RECURSIVE reduceProps(_, _)
reduceProps(acc, propLines) ==
    IF propLines = <<>> THEN acc
    ELSE LET m == lineMatch(propLines[1])
         IN  reduceProps(IF m.matched THEN setProp(acc, m) ELSE acc,
                         Tail(propLines))

\* The props of parseComponent (lines 304-324).
extractProps(content) ==
    LET m == propsMatch(content)
        trimmed == [i \in DOMAIN splitLines(m.body) |-> trim(splitLines(m.body)[i])]
        propLines == SelectSeq(trimmed,
                       LAMBDA line : line # <<>> /\ ~(Len(line) >= 2 /\ SubSeq(line, 1, 2) = <<"/", "/">>))
    IN  IF m.matched THEN reduceProps(<<>>, propLines) ELSE <<>>

(***************************************************************************)
(* extractDependencies: content.match(/import\s+.*\s+from\s+['"]([^'"]+)   *)
(* ['"]/g), then /from\s+['"]([^'"]+)['"]/ on each match.                  *)
(***************************************************************************)
ImportWord == <<"i", "m", "p", "o", "r", "t">>
FromWord == <<"f", "r", "o", "m">>
Quotes == {"'", "\""}

\* from\s+['"]([^'"]+)['"] tried at index p of s: where the match ends, and
\* the specifier. \s+ takes the whole run of white space, [^'"]+ runs to the
\* next quote.
fromAt(s, p) ==
    LET ws == p + Len(FromWord)
        quote == skip(s, ws, SpaceChars)
        closing == find(s, quote + 1, Quotes)
    IN  IF /\ p + Len(FromWord) - 1 <= Len(s)
           /\ SubSeq(s, p, p + Len(FromWord) - 1) = FromWord
           /\ quote > ws
           /\ quote <= Len(s) /\ s[quote] \in Quotes
           /\ closing <= Len(s) /\ closing > quote + 1
        THEN [matched |-> TRUE, end |-> closing,
              specifier |-> SubSeq(s, quote + 1, closing - 1)]
        ELSE [matched |-> FALSE, end |-> 0, specifier |-> <<>>]

\* The whole expression tried at index i: import, white space up to p1, `.*`
\* up to p2 on one line, white space from p2 up to a matching `from`. The
\* quantifiers are greedy: the longest first white space, then the longest
\* `.*`, are taken.
importEnds(s, i) ==
    LET p0 == i + Len(ImportWord)
        firsts == (p0 + 1) .. skip(s, p0, SpaceChars)
        pairs == { <<p1, p2>> \in firsts \X DOMAIN s :
                     /\ p1 <= p2
                     /\ \A j \in p1 .. (p2 - 1) : s[j] # "\n"
                     /\ s[p2] \in SpaceChars
                     /\ fromAt(s, skip(s, p2, SpaceChars)).matched }
        best == CHOOSE b \in pairs : \A c \in pairs :
                    c[1] < b[1] \/ (c[1] = b[1] /\ c[2] <= b[2])
    IN  IF /\ i + Len(ImportWord) - 1 <= Len(s)
           /\ SubSeq(s, i, i + Len(ImportWord) - 1) = ImportWord
           /\ pairs # {}
        THEN fromAt(s, skip(s, best[2], SpaceChars)).end
        ELSE 0

\* The matches of the global expression from index pos on, left to right.
RECURSIVE importMatches(_, _)
importMatches(s, pos) ==
    LET hits == { i \in pos .. Len(s) : importEnds(s, i) # 0 }
        i == CHOOSE h \in hits : \A g \in hits : h <= g
    IN  IF hits = {} THEN <<>>
        ELSE <<SubSeq(s, i, importEnds(s, i))>>
               \o importMatches(s, importEnds(s, i) + 1)

\* match.match(/from\s+['"]([^'"]+)['"]/): the first `from` of the match.
fromMatch(m) ==
    LET hits == { p \in DOMAIN m : fromAt(m, p).matched }
    IN  fromAt(m, CHOOSE p \in hits : \A q \in hits : p <= q).specifier

\* private extractDependencies(content)
extractDependencies(content) ==
    LET ms == importMatches(content, 1)
    IN  [k \in DOMAIN ms |-> fromMatch(ms[k])]

(***************************************************************************)
(* The file tree, the scanner and the parser.                              *)
(***************************************************************************)
\* A directory entry (fs.Dirent) with what it holds: a directory has entries,
\* a file has content; readable is whether readdir or readFile succeeds.
File(name, readable, content) ==
    [name |-> name, isDirectory |-> FALSE, readable |-> readable,
     entries |-> <<>>, content |-> content]
Dir(name, readable, entries) ==
    [name |-> name, isDirectory |-> TRUE, readable |-> readable,
     entries |-> entries, content |-> <<>>]

\* private async scanForComponents(dir): the files found, in the order found,
\* each with what readFile will give for it. A directory that cannot be read
\* contributes nothing (the catch of lines 290-292).
RECURSIVE scanForComponents(_, _)
RECURSIVE scanEntries(_, _, _)
scanForComponents(dir, d) ==
    IF ~d.readable THEN <<>> ELSE scanEntries(dir, d.entries, 1)
scanEntries(dir, entries, i) ==
    IF i > Len(entries) THEN <<>>
    ELSE LET entry == entries[i]
             fullPath == join(dir, entry.name)
             found ==
                 IF entry.isDirectory THEN scanForComponents(fullPath, entry)
                 ELSE IF endsWith(entry.name, <<".", "t", "s", "x">>) \/ endsWith(entry.name, <<".", "t", "s">>)
                 THEN << [filePath |-> fullPath, readable |-> entry.readable,
                          content |-> entry.content] >>
                 ELSE <<>>
         IN  found \o scanEntries(dir, entries, i + 1)

NoDependencies == [defined |-> FALSE, list |-> <<>>]

\* A parse whose fallback record is named by the whole base name.
parseComponentKeepingExt(f) ==
    [name |-> basename(f.filePath),
     path |-> relative(cwd, f.filePath),
     props |-> IF f.readable THEN extractProps(f.content) ELSE <<>>,
     usage |-> IF f.readable
               THEN generateUsageExample(basenameExt(f.filePath, extname(f.filePath)),
                                         extractProps(f.content))
               ELSE <<"<">> \o basename(f.filePath) \o <<" ", "/", ">">>,
     dependencies |-> IF f.readable
                      THEN [defined |-> TRUE, list |-> extractDependencies(f.content)]
                      ELSE NoDependencies]

\* private async parseComponent(filePath): readFile throws for an unreadable
\* file, and the catch returns the record of lines 338-343.
parseComponent(f) ==
    IF f.readable
    THEN LET relativePath == relative(cwd, f.filePath)
             componentName == basenameExt(f.filePath, extname(f.filePath))
             props == extractProps(f.content)
         IN  [name |-> componentName,
              path |-> relativePath,
              props |-> props,
              usage |-> generateUsageExample(componentName, props),
              dependencies |-> [defined |-> TRUE,
                                list |-> extractDependencies(f.content)]]
    ELSE [name |-> basenameExt(f.filePath, extname(f.filePath)),
          path |-> relative(cwd, f.filePath),
          props |-> <<>>,
          usage |-> <<"<">> \o basenameExt(f.filePath, extname(f.filePath)) \o <<" ", "/", ">">>,
          dependencies |-> NoDependencies]

\* The try block of loadComponents (lines 265-268). scanForComponents and
\* parseComponent each catch their own errors, so nothing is thrown here.
tryLoad(root) ==
    LET componentFiles == scanForComponents(componentsDir, root)
    IN  [threw |-> FALSE,
         value |-> [i \in DOMAIN componentFiles |->
                      parseComponent(componentFiles[i])]]

\* private async loadComponents(): the value assigned to componentsCache.
loadComponents(root) ==
    IF tryLoad(root).threw
    THEN getDefaultComponents
    ELSE tryLoad(root).value

\* File contents.
ButtonSrc == <<"i", "m", "p", "o", "r", "t", " ", "R", "e", "a", "c", "t", " ", "f", "r", "o", "m", " ", "'", "r", "e", "a", "c", "t", "'", "\n", "i", "n", "t", "e", "r", "f", "a", "c", "e", " ", "B", "u", "t", "t", "o", "n", "P", "r", "o", "p", "s", " ", "{", "\n", " ", " ", "l", "a", "b", "e", "l", ":", " ", "s", "t", "r", "i", "n", "g", ";", "\n", " ", " ", "o", "n", "C", "l", "i", "c", "k", "?", ":", " ", "(", ")", " ", "=", ">", " ", "v", "o", "i", "d", ";", "\n", "}", "\n">>
FooSrc == <<"i", "n", "t", "e", "r", "f", "a", "c", "e", " ", "F", "o", "o", "P", "r", "o", "p", "s", " ", "{", " ", "b", "a", "r", ":", " ", "s", "t", "r", "i", "n", "g", ";", " ", "b", "a", "z", "?", ":", " ", "n", "u", "m", "b", "e", "r", ";", " ", "}">>
PlainSrc == <<"e", "x", "p", "o", "r", "t", " ", "c", "o", "n", "s", "t", " ", "x", " ", "=", " ", "1">>

\* File trees under src/components.
TreeUnreadable == Dir(<<"c", "o", "m", "p", "o", "n", "e", "n", "t", "s">>, FALSE, <<>>)
TreeEmpty == Dir(<<"c", "o", "m", "p", "o", "n", "e", "n", "t", "s">>, TRUE, <<>>)
TreeA ==
    Dir(<<"c", "o", "m", "p", "o", "n", "e", "n", "t", "s">>, TRUE,
        << Dir(<<"u", "i">>, TRUE, << File(<<"B", "u", "t", "t", "o", "n", ".", "t", "s", "x">>, TRUE, ButtonSrc),
                              File(<<"n", "o", "t", "e", "s", ".", "m", "d">>, TRUE, PlainSrc) >>),
           File(<<"B", "u", "i", "l", "d", ".", "t", "s">>, TRUE, PlainSrc),
           Dir(<<"b", "u", "i", "l", "d", "e", "r">>, TRUE, << File(<<"C", "a", "r", "d", ".", "t", "s", "x">>, FALSE, <<>>) >>),
           Dir(<<"l", "a", "y", "o", "u", "t">>, FALSE, <<>>) >>)
TreeB ==
    Dir(<<"c", "o", "m", "p", "o", "n", "e", "n", "t", "s">>, TRUE,
        << Dir(<<"f", "o", "r", "m", "s">>, TRUE, << File(<<"F", "o", "o", ".", "t", "s", "x">>, TRUE, FooSrc),
                                 File(<<"b", "u", "t", "t", "o", "n", ".", "t", "s">>, TRUE, PlainSrc) >>),
           Dir(<<"u", "i">>, TRUE, << File(<<"B", "u", "t", "t", "o", "n", ".", "t", "s", "x">>, TRUE, ButtonSrc) >>) >>)
Trees == {TreeUnreadable, TreeEmpty, TreeA, TreeB}

\* The list each tree loads to, computed once.
Loaded == [t \in Trees |-> loadComponents(t)]

(***************************************************************************)
(* The operations and resources that read the cache.                       *)
(***************************************************************************)
All == <<"a", "l", "l">>
Categories == { <<"u", "i">>, <<"f", "o", "r", "m", "s">>, All }
RequestedNames == { <<"B", "U", "T", "T", "O", "N">>, <<"N", "o", "p", "e">> }

\* `Component ${name} not found`
notFound(name) == <<"C", "o", "m", "p", "o", "n", "e", "n", "t", " ">> \o name \o <<" ", "n", "o", "t", " ", "f", "o", "u", "n", "d">>

\* The filter of getComponents (lines 106-108).
matchesCategoryAnywhere(comp, category) ==
    \/ includes(comp.path, category)
    \/ includes(toLowerCase(comp.name), category)
matchesCategory(comp, category) ==
    \/ includes(comp.path, <<"/">> \o category \o <<"/">>)
    \/ includes(toLowerCase(comp.name), category)

Returned(op, arg, cache) ==
    [NoResult EXCEPT !.step = "return", !.op = op, !.arg = arg, !.cache = cache]

\* private async getComponents(category), after the load: the components of
\* the JSON text it returns.
getComponents(category, cache) ==
    LET filtered == IF category # All
                    THEN SelectSeq(cache, LAMBDA comp : matchesCategory(comp, category))
                    ELSE cache
    IN  [Returned("get_components", category, cache) EXCEPT !.value = filtered]

\* componentsCache.find(comp => comp.name.toLowerCase() === name.toLowerCase()):
\* the first such index (0: undefined).
findByNameExact(cache, name) ==
    LET hits == { i \in DOMAIN cache : cache[i].name = name }
    IN  IF hits = {} THEN 0 ELSE CHOOSE i \in hits : \A j \in hits : i <= j
findByName(cache, name) ==
    LET hits == { i \in DOMAIN cache :
                    toLowerCase(cache[i].name) = toLowerCase(name) }
    IN  IF hits = {} THEN 0 ELSE CHOOSE i \in hits : \A j \in hits : i <= j

\* private async getComponentByName(name), after the load.
getComponentByName(name, cache) ==
    LET component == findByName(cache, name)
    IN  IF component = 0
        THEN [Returned("get_component_by_name", name, cache) EXCEPT
                !.threw = TRUE, !.error = notFound(name)]
        ELSE [Returned("get_component_by_name", name, cache) EXCEPT
                !.value = <<cache[component]>>]

\* The handler of the resource components://all, after the load.
readComponents(cache) ==
    [Returned("components://all", <<>>, cache) EXCEPT !.value = cache]

\* A resource read that fails like the tool does when the name is absent.
readComponentThrowing(name, cache) ==
    LET comp == findByName(cache, name)
    IN  IF comp = 0
        THEN [Returned("component://{name}", name, cache) EXCEPT
                !.threw = TRUE, !.error = notFound(name)]
        ELSE [Returned("component://{name}", name, cache) EXCEPT
                !.value = <<cache[comp]>>]

\* The handler of the resource component://{name}, after the load.
readComponent(name, cache) ==
    LET comp == findByName(cache, name)
    IN  IF comp = 0
        THEN [Returned("component://{name}", name, cache) EXCEPT
                !.error = notFound(name)]
        ELSE [Returned("component://{name}", name, cache) EXCEPT
                !.value = <<cache[comp]>>]

\* The input schemas of the two tools (lines 46-53 and 66-68); resources have
\* no schema.
CategoryLiterals == { <<"u", "i">>, <<"l", "a", "y", "o", "u", "t">>, <<"f", "o", "r", "m", "s">>, All }
MinNameLength == 2
MaxNameLength == 100

nameSchemaMinOne(name) == Len(name) >= MinNameLength - 1 /\ Len(name) <= MaxNameLength

nameSchema(name) == Len(name) >= MinNameLength /\ Len(name) <= MaxNameLength

inputSchema(a) ==
    CASE a.op = "get_components" -> a.arg \in CategoryLiterals
      [] a.op = "get_component_by_name" -> nameSchema(a.arg)
      [] OTHER -> TRUE

\* `Invalid arguments for tool ${name}`, the error of a call whose arguments
\* fail the schema.
invalidArguments(op) == <<"I", "n", "v", "a", "l", "i", "d", " ", "a", "r", "g", "u", "m", "e", "n", "t", "s", " ", "f", "o", "r", " ", "t", "o", "o", "l", " ">> \o <<op>>

\* Calls whose arguments fail the schema: a category that is no literal of
\* the union, a name that is too short, a name that is too long.
TooLong == [i \in 1 .. MaxNameLength + 1 |-> "a"]
InvalidAccesses ==
    { [op |-> "get_components", arg |-> <<"U", "I">>],
      [op |-> "get_component_by_name", arg |-> <<"B">>],
      [op |-> "get_component_by_name", arg |-> TooLong] }

\* The calls a client can make, with arguments that pass the input schema.
Accesses ==
    { [op |-> "get_components", arg |-> c] : c \in Categories }
      \cup { [op |-> "get_component_by_name", arg |-> n] : n \in RequestedNames }
      \cup { [op |-> "components://all", arg |-> <<>>] }
      \cup { [op |-> "component://{name}", arg |-> n] : n \in RequestedNames }

Answer(a, cache) ==
    CASE a.op = "get_components" -> getComponents(a.arg, cache)
      [] a.op = "get_component_by_name" -> getComponentByName(a.arg, cache)
      [] a.op = "components://all" -> readComponents(cache)
      [] a.op = "component://{name}" -> readComponent(a.arg, cache)

\* The first list a caller was answered from.
Observe(cache) ==
    IF hist.seen THEN hist ELSE [hist EXCEPT !.seen = TRUE, !.first = cache]

RootState(root) ==
    IF ~root.readable THEN "unreadable"
    ELSE IF root.entries = <<>> THEN "empty" ELSE "populated"

\* A handler starts and finds the cache empty (lines 100, 135, 224, 247): it
\* calls loadComponents and waits for it.
AccessLoad(a) ==
    /\ Len(componentsCache) = 0
    /\ Cardinality(calls) < MaxCalls
    /\ [op |-> a.op, arg |-> a.arg, pc |-> "loading"] \notin calls
    /\ calls' = calls \cup {[op |-> a.op, arg |-> a.arg, pc |-> "loading"]}
    /\ result' = [NoResult EXCEPT !.step = "begin", !.op = a.op, !.arg = a.arg,
                                  !.startedLoad = TRUE, !.afterLoad = hist.loaded]
    /\ UNCHANGED <<componentsCache, tree, hist>>

\* A handler starts and finds the cache not empty: it answers from it.
AccessCached(a) ==
    /\ Len(componentsCache) # 0
    /\ result' = Answer(a, componentsCache)
    /\ hist' = Observe(componentsCache)
    /\ UNCHANGED <<componentsCache, tree, calls>>

\* A tool call whose arguments fail the input schema is answered with the
\* validation error; the registered handler is not called.
AccessInvalid(a) ==
    /\ result' = [NoResult EXCEPT !.step = "invalid", !.op = a.op, !.arg = a.arg,
                                  !.threw = TRUE, !.error = invalidArguments(a.op)]
    /\ UNCHANGED <<componentsCache, tree, calls, hist>>

Access(a) ==
    /\ IF inputSchema(a) THEN AccessLoad(a) \/ AccessCached(a) ELSE AccessInvalid(a)
    /\ UNCHANGED sessionVars

\* loadComponents completes for one waiting handler: the scan and the parses
\* read the tree as it is now, and componentsCache is assigned.
Load(c) ==
    /\ c \in calls /\ c.pc = "loading"
    /\ [c EXCEPT !.pc = "loaded"] \notin calls
    /\ componentsCache' = Loaded[tree]
    /\ calls' = (calls \ {c}) \cup {[c EXCEPT !.pc = "loaded"]}
    /\ hist' = [hist EXCEPT !.loaded = TRUE]
    /\ result' = [NoResult EXCEPT !.step = "load", !.op = c.op, !.arg = c.arg,
                                  !.root = RootState(tree),
                                  !.cache = componentsCache']
    /\ UNCHANGED tree
    /\ UNCHANGED sessionVars

\* The handler resumes after `await this.loadComponents()` and answers from
\* componentsCache as it is then.
Return(c) ==
    /\ c \in calls /\ c.pc = "loaded"
    /\ calls' = calls \ {c}
    /\ result' = Answer(c, componentsCache)
    /\ hist' = Observe(componentsCache)
    /\ UNCHANGED <<componentsCache, tree>>
    /\ UNCHANGED sessionVars

\* The files under src/components change (the program does not do this).
FsChange(t) ==
    /\ t # tree
    /\ tree' = t
    /\ result' = [NoResult EXCEPT !.step = "fs"]
    /\ UNCHANGED <<componentsCache, calls, hist>>
    /\ UNCHANGED sessionVars

(***************************************************************************)
(* The client of src/unnamed/part_001: it calls get_components with        *)
(* category 'all' and reads components://all, and parses the JSON texts.   *)
(***************************************************************************)
\* JSON.stringify of a string: quotes and backslashes are escaped.
RECURSIVE quote(_)
quote(str) ==
    IF str = <<>> THEN <<>>
    ELSE (IF Head(str) \in {"\"", "\\"} THEN <<"\\", Head(str)>> ELSE <<Head(str)>>)
           \o quote(Tail(str))

\* JSON.stringify(list, null, 2), of each record its name member.
RECURSIVE stringifyFrom(_, _)
stringifyFrom(list, i) ==
    IF i > Len(list) THEN <<>>
    ELSE <<"\n", " ", " ", "{", "\n", " ", " ", " ", " ", "\"", "n", "a", "m", "e", "\"", ":", " ", "\"">> \o quote(list[i].name) \o <<"\"", "\n", " ", " ", "}">>
           \o (IF i < Len(list) THEN <<",">> ELSE <<"\n">>)
           \o stringifyFrom(list, i + 1)
stringify(list) == <<"[">> \o stringifyFrom(list, 1) \o <<"]">>

\* JSON.parse of such a text: the string that ends at the closing quote found
\* from i on, and the names of the array's objects in the order of the text.
RECURSIVE closingQuote(_, _)
closingQuote(text, i) ==
    IF i > Len(text) \/ text[i] = "\"" THEN i
    ELSE closingQuote(text, IF text[i] = "\\" THEN i + 2 ELSE i + 1)
RECURSIVE unquote(_)
unquote(str) ==
    IF str = <<>> THEN <<>>
    ELSE IF Head(str) = "\\" /\ Len(str) > 1
         THEN <<str[2]>> \o unquote(Tail(Tail(str)))
         ELSE <<Head(str)>> \o unquote(Tail(str))
RECURSIVE parseFrom(_, _, _)
parseFrom(text, i, isName) ==
    LET opening == find(text, i, {"\""})
        closing == closingQuote(text, opening + 1)
        str == unquote(SubSeq(text, opening + 1, closing - 1))
        isKey == skip(text, closing + 1, SpaceChars) <= Len(text)
                   /\ text[skip(text, closing + 1, SpaceChars)] = ":"
    IN  IF opening > Len(text) THEN <<>>
        ELSE (IF isName /\ ~isKey THEN <<str>> ELSE <<>>)
               \o parseFrom(text, closing + 1, isKey /\ str = <<"n", "a", "m", "e">>)
parseNames(text) == parseFrom(text, 1, FALSE)

namesOf(list) == [i \in DOMAIN list |-> list[i].name]

NoTrip == [tool |-> <<>>, resource |-> <<>>]

\* What the client holds after the step: compResult of callTool and the
\* parsed allText of readResource, each as the list of its names.
received(r) ==
    IF r.step = "return" /\ r.op = "get_components" /\ r.arg = All
    THEN [trip EXCEPT !.tool = <<namesOf(r.value)>>]
    ELSE IF r.step = "return" /\ r.op = "components://all"
         THEN [trip EXCEPT !.resource = <<parseNames(stringify(r.value))>>]
         ELSE trip

\* The state after `new ComponentMCPServer()` and run(): no session, an empty
\* cache (componentsCache: ComponentDefinition[] = []), nothing in flight.
Init ==
    /\ transports = <<>>
    /\ tobj = <<>>
    /\ connected = NoTransport
    /\ inflight = {}
    /\ last = NoLast
    /\ componentsCache = <<>>
    /\ tree = TreeUnreadable
    /\ calls = {}
    /\ result = NoResult
    /\ hist = [loaded |-> FALSE, seen |-> FALSE, first |-> <<>>]
    /\ trip = NoTrip

SessionNext ==
    \/ \E sid \in Headers, isInit \in BOOLEAN, accepted \in BOOLEAN :
         Post(sid, isInit, accepted) /\ UNCHANGED trip
    \/ \E method \in {"GET", "DELETE"}, sid \in Headers, accepted \in BOOLEAN :
         handleSessionRequest(method, sid, accepted) /\ UNCHANGED trip
    \/ \E r \in inflight : PostInitHandle(r) /\ UNCHANGED trip
    \/ \E r \in inflight : Respond(r) /\ UNCHANGED trip
    \/ \E r \in inflight : Disconnect(r) /\ UNCHANGED trip

SessionSpec == Init /\ [][SessionNext]_vars

\* The JSON-RPC requests a transport can hold.
PostItems ==
    { Item("post", t, via, TRUE) :
        t \in 1 .. MaxTransports, via \in NoTransport .. MaxTransports }

\* The event loop runs every continuation that is ready: the handler of an
\* initialization POST reaches handleRequest, and the server sends the answer
\* of every request whose answer can reach its HTTP response. Requests,
\* disconnections and session ends are the clients' choice.
FairSessionSpec ==
    /\ SessionSpec
    /\ WF_vars(\E r \in inflight : PostInitHandle(r) /\ UNCHANGED trip)
    /\ \A r \in PostItems : WF_vars(Respond(r) /\ UNCHANGED trip)

CacheNext ==
    \/ \E a \in Accesses : Access(a) /\ UNCHANGED trip
    \/ \E c \in calls : Load(c) /\ UNCHANGED trip
    \/ \E c \in calls : Return(c) /\ UNCHANGED trip
    \/ \E t \in Trees : FsChange(t) /\ UNCHANGED trip

CacheSpec == Init /\ [][CacheNext]_vars

\* Tool calls with arguments on both sides of the input schemas.
ToolCalls ==
    InvalidAccesses
      \cup { [op |-> "get_components", arg |-> <<"u", "i">>],
             [op |-> "get_component_by_name", arg |-> <<"B", "U", "T", "T", "O", "N">>] }

ValidationNext ==
    \/ \E a \in ToolCalls : Access(a) /\ UNCHANGED trip
    \/ \E c \in calls : Load(c) /\ UNCHANGED trip
    \/ \E c \in calls : Return(c) /\ UNCHANGED trip
    \/ \E t \in Trees : FsChange(t) /\ UNCHANGED trip

ValidationSpec == Init /\ [][ValidationNext]_vars

\* The two calls of the client, in either order and any number of times.
ClientCalls ==
    { [op |-> "get_components", arg |-> All],
      [op |-> "components://all", arg |-> <<>>] }

RoundTripNext ==
    \/ \E a \in ClientCalls : Access(a) /\ trip' = received(result')
    \/ \E c \in calls : Load(c) /\ UNCHANGED trip
    \/ \E c \in calls : Return(c) /\ trip' = received(result')
    \/ \E t \in Trees : FsChange(t) /\ UNCHANGED trip

RoundTripSpec == Init /\ [][RoundTripNext]_vars

(***************************************************************************)
(* loadComponents step by step: the scan, then one parseComponent per file *)
(* found, each reading its file when it runs and completing in any order,  *)
(* then the assignment of the Promise.all result.                          *)
(***************************************************************************)
TooltipSrc == <<"i", "n", "t", "e", "r", "f", "a", "c", "e", " ", "T", "o", "o", "l", "t", "i", "p", "P", "r", "o", "p", "s", " ", "{", "\n", " ", " ", "t", "e", "x", "t", ":", " ", "s", "t", "r", "i", "n", "g", ";", "\n", " ", " ", "t", "i", "p", "?", ":", " ", "b", "o", "o", "l", "e", "a", "n", ";", "\n", "}", "\n">>
GridSrc == <<"i", "n", "t", "e", "r", "f", "a", "c", "e", " ", "G", "r", "i", "d", "P", "r", "o", "p", "s", " ", "{", "\n", " ", " ", "c", "o", "l", "s", ":", " ", "n", "u", "m", "b", "e", "r", ";", "\n", " ", " ", "0", ":", " ", "s", "t", "r", "i", "n", "g", ";", "\n", "}", "\n">>

\* Source trees: in the second one Tooltip.tsx cannot be read and Grid.tsx is
\* gone.
TreeC ==
    Dir(<<"c", "o", "m", "p", "o", "n", "e", "n", "t", "s">>, TRUE,
        << File(<<"T", "o", "o", "l", "t", "i", "p", ".", "t", "s", "x">>, TRUE, TooltipSrc),
           File(<<"G", "r", "i", "d", ".", "t", "s", "x">>, TRUE, GridSrc),
           File(<<"F", "o", "o", ".", "t", "s", "x">>, TRUE, FooSrc) >>)
TreeD ==
    Dir(<<"c", "o", "m", "p", "o", "n", "e", "n", "t", "s">>, TRUE,
        << File(<<"T", "o", "o", "l", "t", "i", "p", ".", "t", "s", "x">>, FALSE, <<>>),
           File(<<"F", "o", "o", ".", "t", "s", "x">>, TRUE, FooSrc) >>)
SourceTrees == {TreeUnreadable, TreeC, TreeD}

\* fs.readFile(filePath, 'utf-8') on the tree as it is when the parse runs: a
\* file that is no longer there cannot be read.
readFile(root, filePath) ==
    LET hits == SelectSeq(scanForComponents(componentsDir, root),
                          LAMBDA f : f.filePath = filePath)
    IN  IF hits = <<>>
        THEN [filePath |-> filePath, readable |-> FALSE, content |-> <<>>]
        ELSE hits[1]

\* The scans and the parses of the source trees, computed once.
Scanned == [t \in SourceTrees |-> scanForComponents(componentsDir, t)]
FileIndices == UNION { DOMAIN Scanned[t] : t \in SourceTrees }
Reads ==
    UNION { { readFile(t, Scanned[u][i].filePath) : t \in SourceTrees, i \in DOMAIN Scanned[u] } :
            u \in SourceTrees }
Parsed == [f \in Reads |-> parseComponent(f)]

NotRead == [filePath |-> <<>>, readable |-> FALSE, content |-> <<>>]

\* const componentFiles = await this.scanForComponents(componentsDir), and
\* componentFiles.map(file => this.parseComponent(file)) starts the parses.
Scan(c) ==
    /\ c \in calls /\ c.pc = "loading"
    /\ LET componentFiles == Scanned[tree]
       IN  calls' = (calls \ {c}) \cup
                    {[op |-> c.op, arg |-> c.arg, pc |-> "parsing",
                      files |-> [i \in DOMAIN componentFiles |-> componentFiles[i].filePath],
                      read |-> [i \in DOMAIN componentFiles |-> NotRead],
                      order |-> <<>>]}
    /\ result' = [NoResult EXCEPT !.step = "scan"]
    /\ UNCHANGED <<componentsCache, tree, hist>>
    /\ UNCHANGED sessionVars

\* parseComponent(files[i]) runs to its end: it reads the file as it is now.
ParseDone(c, i) ==
    /\ c \in calls /\ c.pc = "parsing"
    /\ i \in DOMAIN c.files /\ c.read[i] = NotRead
    /\ calls' = (calls \ {c}) \cup
                {[c EXCEPT !.read[i] = readFile(tree, c.files[i]),
                           !.order = Append(c.order, i)]}
    /\ result' = [NoResult EXCEPT !.step = "parse"]
    /\ UNCHANGED <<componentsCache, tree, hist>>
    /\ UNCHANGED sessionVars

\* An array built in the order in which the promises settled.
promiseAllSettled(c) == [k \in DOMAIN c.order |-> Parsed[c.read[c.order[k]]]]

\* await Promise.all(componentFiles.map(...)): the results, each at the index
\* of its file.
promiseAll(c) == [i \in DOMAIN c.files |-> Parsed[c.read[i]]]

\* this.componentsCache = await Promise.all(...), once every parse is done.
Assign(c) ==
    /\ c \in calls /\ c.pc = "parsing"
    /\ \A i \in DOMAIN c.files : c.read[i] # NotRead
    /\ componentsCache' = promiseAll(c)
    /\ calls' = (calls \ {c}) \cup {[op |-> c.op, arg |-> c.arg, pc |-> "loaded"]}
    /\ hist' = [hist EXCEPT !.loaded = TRUE]
    /\ result' = [NoResult EXCEPT !.step = "load", !.op = c.op, !.arg = c.arg,
                                  !.cache = componentsCache',
                                  !.files = c.files, !.read = c.read,
                                  !.order = c.order]
    /\ UNCHANGED tree
    /\ UNCHANGED sessionVars

\* One caller that awaits each of its calls, as main() of the client does.
LoadNext ==
    \/ \E a \in ClientCalls : calls = {} /\ Access(a) /\ UNCHANGED trip
    \/ \E c \in calls : Scan(c) /\ UNCHANGED trip
    \/ \E c \in calls, i \in FileIndices : ParseDone(c, i) /\ UNCHANGED trip
    \/ \E c \in calls : Assign(c) /\ UNCHANGED trip
    \/ \E c \in calls : Return(c) /\ UNCHANGED trip
    \/ \E t \in SourceTrees : FsChange(t) /\ UNCHANGED trip

LoadSpec == Init /\ [][LoadNext]_vars

\* Fair scheduling of the file-system completions: the scan, every parse, the
\* assignment and the resumption of the handler all happen once they can.
FairLoadSpec ==
    /\ LoadSpec
    /\ WF_vars(\E c \in calls : Scan(c) /\ UNCHANGED trip)
    /\ WF_vars(\E c \in calls, i \in FileIndices : ParseDone(c, i) /\ UNCHANGED trip)
    /\ WF_vars(\E c \in calls : Assign(c) /\ UNCHANGED trip)
    /\ WF_vars(\E c \in calls : Return(c) /\ UNCHANGED trip)


(***************************************************************************)
(* Claims about the cache (checked under CacheSpec).                       *)
(***************************************************************************)
\* Two strings that differ at most in the case of their letters.
SameLetter(a, b) ==
    \/ a = b
    \/ \E i \in DOMAIN UpperCase : {a, b} = {UpperCase[i], LowerCase[i]}
EqualsIgnoringCase(x, y) ==
    /\ Len(x) = Len(y)
    /\ \A i \in DOMAIN x : SameLetter(x[i], y[i])

\* The segments of a path: what its separators delimit.
RECURSIVE Segments(_)
Segments(path) ==
    LET sep == find(path, 1, {"/"})
    IN  IF sep > Len(path) THEN {path}
        ELSE {SubSeq(path, 1, sep - 1)} \cup Segments(SubSeq(path, sep + 1, Len(path)))

\* C6: an access that finds a load already completed starts no load.
C6_LoadAtMostOnce ==
    (result.step = "begin" /\ result.startedLoad) => ~result.afterLoad

\* C7: every answer is computed from the list the first answer was computed
\* from.
C7_CacheNeverChanges ==
    (result.step = "return" /\ hist.seen) => result.cache = hist.first

\* C8: a load that finds the root directory empty, missing or unreadable
\* leaves the two built-in records in the cache.
C8_DefaultsWhenRootUnusable ==
    (result.step = "load" /\ result.root \in {"unreadable", "empty"}) =>
        componentsCache = getDefaultComponents

\* C9: get_component_by_name returns exactly one record, whose name equals the
\* requested one ignoring case, when the cache holds such a record; otherwise
\* it fails with the error 'Component <name> not found'.
C9_GetComponentByNameTotal ==
    (result.step = "return" /\ result.op = "get_component_by_name") =>
        IF \E i \in DOMAIN result.cache :
               EqualsIgnoringCase(result.cache[i].name, result.arg)
        THEN /\ ~result.threw
             /\ Len(result.value) = 1
             /\ \E i \in DOMAIN result.cache : result.value[1] = result.cache[i]
             /\ EqualsIgnoringCase(result.value[1].name, result.arg)
        ELSE /\ result.threw
             /\ result.value = <<>>
             /\ result.error = notFound(result.arg)
             /\ includes(result.error, result.arg)

\* A name found although no cached record has it in the requested case.
C9_Witness ==
    /\ result.step = "return" /\ result.op = "get_component_by_name"
    /\ ~result.threw /\ Len(result.value) = 1
    /\ result.value[1].name # result.arg
    /\ Cardinality({ i \in DOMAIN result.cache :
                       EqualsIgnoringCase(result.cache[i].name, result.arg) }) > 1

\* C10: get_components("all") returns as many records as the cache holds; for
\* another category it returns, in cache order, the records whose path has a
\* segment equal to the category or whose lower-cased name contains it.
C10_GetComponentsFilter ==
    (result.step = "return" /\ result.op = "get_components") =>
        IF result.arg = All
        THEN Len(result.value) = Len(result.cache)
        ELSE result.value =
               SelectSeq(result.cache,
                         LAMBDA comp :
                           \/ result.arg \in Segments(comp.path)
                           \/ includes(toLowerCase(comp.name), result.arg))

\* A category that selects one record by its path, one by its name, and
\* leaves out a record whose path only contains the category inside a segment.
C10_Witness ==
    /\ result.step = "return" /\ result.op = "get_components"
    /\ result.arg # All
    /\ Len(result.value) = 2 /\ Len(result.cache) = 3
    /\ result.arg \in Segments(result.value[1].path)
    /\ result.arg \notin Segments(result.value[2].path)
    /\ \E i \in DOMAIN result.cache :
         /\ includes(result.cache[i].path, result.arg)
         /\ \A k \in DOMAIN result.value : result.value[k] # result.cache[i]


\* Whether some record of the list has the requested name, letter case aside.
Present(name, cache) ==
    \E i \in DOMAIN cache : EqualsIgnoringCase(cache[i].name, name)

\* C11: an absent name makes get_component_by_name fail with an error that
\* names the component, while a read of component://{name} for the same name
\* and list completes normally with the "not found" text as its body; for a
\* present name the two return the same record.
C11_AbsentNameAsymmetry ==
    /\ (result.op = "get_component_by_name" /\ result.step = "return"
          /\ ~Present(result.arg, result.cache))
         => /\ result.threw /\ result.error = notFound(result.arg)
            /\ result.value = <<>>
            /\ LET read == readComponent(result.arg, result.cache)
               IN  ~read.threw /\ read.error = result.error
    /\ (result.op = "component://{name}" /\ result.step = "return")
         => /\ ~result.threw
            /\ IF Present(result.arg, result.cache)
               THEN /\ result.error = <<>>
                    /\ result.value =
                         getComponentByName(result.arg, result.cache).value
                    /\ Len(result.value) = 1
               ELSE /\ result.value = <<>>
                    /\ result.error = notFound(result.arg)
                    /\ getComponentByName(result.arg, result.cache).threw

C11_Witness ==
    /\ result.op = "component://{name}" /\ result.step = "return"
    /\ Len(result.cache) > 0
    /\ ~Present(result.arg, result.cache)
    /\ ~result.threw /\ result.error = notFound(result.arg)


\* The handlers that are inside `await this.loadComponents()`.
LoadsRunning == { c \in calls : c.pc = "loading" }

\* C18: accesses that arrive while the cache is empty or a load is in flight
\* do not start loads of their own: at most one load is ever running.
C18_AtMostOneLoadRunning == Cardinality(LoadsRunning) <= 1


\* The arguments the interface accepts, restated: category is one of ui,
\* layout, forms, all; name has between 2 and 100 characters.
ArgumentsValid(op, arg) ==
    /\ op = "get_components" =>
         arg \in { <<"u", "i">>, <<"l", "a", "y", "o", "u", "t">>,
                   <<"f", "o", "r", "m", "s">>, <<"a", "l", "l">> }
    /\ op = "get_component_by_name" =>
         Len(arg) \in MinNameLength .. MaxNameLength

\* C17: a call with invalid arguments fails with a validation error before
\* any cache access: the step starts no load and leaves the cache, the
\* waiting handlers and the history of loads as they were.
C17_InvalidArgumentsRejectedFirst ==
    [][ (result'.step \in {"begin", "return", "invalid"}
           /\ ~ArgumentsValid(result'.op, result'.arg))
        => /\ result'.step = "invalid" /\ result'.threw
           /\ result'.error = invalidArguments(result'.op)
           /\ ~result'.startedLoad
           /\ UNCHANGED <<componentsCache, calls, hist, tree>> ]_vars

C17_Witness ==
    /\ result.step = "invalid"
    /\ result.op = "get_component_by_name" /\ Len(result.arg) > MaxNameLength
    /\ Len(componentsCache) = 0 /\ calls = {}


\* C12: the list parsed from the text of components://all has the same
\* length and the same names, in the same order, as the components returned
\* by get_components("all") in the same process, whichever came first.
C12_ResourceEqualsToolList ==
    (trip.tool # <<>> /\ trip.resource # <<>>) => trip.tool[1] = trip.resource[1]


(***************************************************************************)
(* Claims about the parser and the load (checked under LoadSpec).          *)
(***************************************************************************)
\* The first index at which sub occurs in s (0: nowhere).
IndexOf(s, sub) ==
    LET hits == { i \in 1 .. (Len(s) - Len(sub) + 1) :
                    SubSeq(s, i, i + Len(sub) - 1) = sub }
    IN  IF hits = {} THEN 0 ELSE CHOOSE i \in hits : \A j \in hits : i <= j

\* The records of the cache that have properties.
WithProps == { i \in DOMAIN componentsCache : componentsCache[i].props # <<>> }

\* C13: for every parsed record with non-empty props, usage contains, for
\* every required property, its name followed by ={...}, in the order of
\* props, and contains no optional property's name anywhere in it.
C13_UsageHasNoOptionalName ==
    \A i \in WithProps :
        LET r == componentsCache[i]
            at(k) == IndexOf(r.usage, r.props[k].name \o <<"=", "{">>)
        IN  /\ \A k \in DOMAIN r.props : ~r.props[k].optional => at(k) > 0
            /\ \A k, l \in DOMAIN r.props :
                 (k < l /\ ~r.props[k].optional /\ ~r.props[l].optional)
                   => at(k) < at(l)
            /\ \A k \in DOMAIN r.props :
                 r.props[k].optional => IndexOf(r.usage, r.props[k].name) = 0

\* ` name={value}` for each required property of the list, in its order.
RECURSIVE RequiredFragments(_)
RequiredFragments(props) ==
    IF props = <<>> THEN <<>>
    ELSE (IF props[1].optional THEN <<>>
          ELSE <<" ">> \o props[1].name \o <<"=", "{">>
                 \o getExampleValue(props[1].type) \o <<"}">>)
           \o RequiredFragments(Tail(props))

\* C13, amended: for every parsed record with non-empty props, usage is
\* `<Name`, then one ` name={value}` fragment for every required property
\* and for no other, in the order in which props lists them, then ` />`.
C13_UsageIsRequiredFragments ==
    \A i \in WithProps :
        LET r == componentsCache[i]
        IN  r.usage = <<"<">> \o r.name \o RequiredFragments(r.props)
                        \o <<" ", "/", ">">>

\* A record whose usage holds the name of an optional property (inside the
\* component's name), next to one whose integer-like key is listed first.
C13_Witness ==
    /\ \E i \in WithProps :
         LET r == componentsCache[i]
         IN  \E k, l \in DOMAIN r.props :
               /\ r.props[k].optional /\ IndexOf(r.usage, r.props[k].name) > 0
               /\ ~r.props[l].optional
    /\ \E i \in WithProps :
         LET r == componentsCache[i]
         IN  Len(r.props) = 2 /\ r.props[1].name = <<"0">> /\ ~r.props[2].optional

\* The records parsed from a readable file Foo whose text is the one-line
\* declaration.
FooRecords ==
    { i \in DOMAIN componentsCache :
        /\ result.step = "load" /\ i \in DOMAIN result.read
        /\ result.read[i].readable
        /\ IndexOf(result.read[i].content, <<"i", "n", "t", "e", "r", "f", "a", "c", "e", " ", "F", "o", "o", "P", "r", "o", "p", "s", " ", "{", " ", "b", "a", "r", ":", " ", "s", "t", "r", "i", "n", "g", ";", " ", "b", "a", "z", "?", ":", " ", "n", "u", "m", "b", "e", "r", ";", " ", "}">>) > 0
        /\ componentsCache[i].name = <<"F", "o", "o">> }

\* C14: parsing a file Foo whose text contains `interface FooProps { bar:
\* string; baz?: number; }` on one line gives props with exactly bar (string,
\* required) and baz (number, optional), and usage `<Foo bar="example" />`.
C14_OneLineInterfaceBothProps ==
    \A i \in FooRecords :
        /\ componentsCache[i].props =
             << [name |-> <<"b", "a", "r">>, type |-> <<"s", "t", "r", "i", "n", "g">>, optional |-> FALSE],
                [name |-> <<"b", "a", "z">>, type |-> <<"n", "u", "m", "b", "e", "r">>, optional |-> TRUE] >>
        /\ componentsCache[i].usage = <<"<", "F", "o", "o", " ", "b", "a", "r", "=", "\"", "e", "x", "a", "m", "p", "l", "e", "\"", " ", "/", ">">>

\* C14, amended: the declaration being one line, only its first property is
\* matched: props has exactly bar (string, required), and usage is
\* `<Foo bar={"example"} />`.
C14_OneLineInterfaceFirstProp ==
    \A i \in FooRecords :
        /\ componentsCache[i].props =
             << [name |-> <<"b", "a", "r">>, type |-> <<"s", "t", "r", "i", "n", "g">>, optional |-> FALSE] >>
        /\ componentsCache[i].usage = <<"<", "F", "o", "o", " ", "b", "a", "r", "=", "{", "\"", "e", "x", "a", "m", "p", "l", "e", "\"", "}", " ", "/", ">">>

C14_Witness == FooRecords # {}

\* C15: a load produces exactly one record per discovered file, in the order
\* of discovery, whatever the order in which the parses complete.
C15_OneRecordPerFileInScanOrder ==
    result.step = "load" =>
        /\ Len(componentsCache) = Len(result.files)
        /\ \A i \in DOMAIN result.files :
             result.files[i] = cwd \o <<"/">> \o componentsCache[i].path

\* A load of several files whose parses completed out of discovery order.
C15_Witness ==
    /\ result.step = "load"
    /\ Len(result.files) > 2
    /\ result.order[1] = Len(result.files)
    /\ componentsCache[1].path # componentsCache[2].path

\* The base name of a source file path without its extension.
Stem(path) ==
    LET ab == CHOOSE ab \in (DOMAIN path) \X (DOMAIN path) :
                /\ ab[1] <= ab[2]
                /\ ab[1] = 1 \/ path[ab[1] - 1] = "/"
                /\ \A k \in ab[1] .. Len(path) : path[k] # "/"
                /\ SubSeq(path, ab[2] + 1, Len(path)) \in { <<".", "t", "s">>, <<".", "t", "s", "x">> }
    IN  SubSeq(path, ab[1], ab[2])

\* C16: parseComponent returns a record for every file path; for a file that
\* cannot be read it is the fallback (name: base name without extension,
\* path relative to the project root, no props, usage `<Name />`, no
\* dependencies), and the records of the other files of the load are what
\* they are without the failure.
C16_ParseNeverFailsOutward ==
    result.step = "load" =>
        /\ DOMAIN componentsCache = DOMAIN result.files
        /\ \A i \in DOMAIN result.files :
             IF result.read[i].readable
             THEN componentsCache[i] = parseComponent(result.read[i])
             ELSE componentsCache[i] =
                    [name |-> Stem(result.files[i]),
                     path |-> SubSeq(result.files[i], Len(cwd) + 2, Len(result.files[i])),
                     props |-> <<>>,
                     usage |-> <<"<">> \o Stem(result.files[i]) \o <<" ", "/", ">">>,
                     dependencies |-> NoDependencies]

\* A load in which one file could not be read and another was parsed.
C16_Witness ==
    /\ result.step = "load"
    /\ \E i, j \in DOMAIN result.files :
         /\ ~result.read[i].readable
         /\ result.read[j].readable /\ componentsCache[j].props # <<>>


(***************************************************************************)
(* Claims about concurrent requests on sessions (checked under             *)
(* SessionSpec).                                                           *)
(***************************************************************************)
\* The open transports that completed their initialization.
LiveTransports ==
    { i \in DOMAIN tobj : tobj[i].sessionId # NoSid /\ ~tobj[i].closed }

\* C19: in no interleaving of requests is a request held by a session's
\* transport after the session's identifier has left the map, and no
\* registration or removal is lost: every initialized open transport is in
\* the map under its identifier, every closed one's identifier is not.
C19_NoUseAfterRemoval ==
    /\ \A r \in inflight :
         r.kind \in {"post", "get"} =>
            /\ r.t \in LiveTransports
            /\ Lookup(transports, tobj[r.t].sessionId) = r.t
    /\ \A i \in LiveTransports :
         /\ tobj[i].sessionId \in DOMAIN transports
         /\ transports[tobj[i].sessionId] = i
    /\ \A i \in DOMAIN tobj :
         tobj[i].closed => tobj[i].sessionId \notin DOMAIN transports

\* A DELETE removed an identifier whose transport held an unanswered POST,
\* while another session has a request in flight.
C19_Witness ==
    /\ last.step = "DELETE" /\ last.status = 200
    /\ "post" \in last.ended
    /\ last.sid \notin DOMAIN transports
    /\ \E r \in inflight : r.kind = "post" /\ r.t \in LiveTransports

\* C20: each session has its own stream: with sessions A and B live,
\* creating B and exchanging requests on B never unbinds A, so the server
\* answers every request accepted on A on A's own transport.
C20_AnsweredOnOwnStream ==
    \A r \in inflight :
        (r.kind = "post" /\ Cardinality(LiveTransports) > 1) => r.via = r.t


\* C22: an entry is added to the session map only by a POST with no session
\* header and an initialization body. A transport is created only by such a
\* POST, an entry is added only when a transport created so is initialized,
\* and no other request (a POST with any header, a GET, a DELETE) creates a
\* transport or adds an entry.
C22_OnlyHeaderlessInitCreates ==
    [][ /\ Len(tobj') > Len(tobj)
          => /\ last'.step = "POST" /\ last'.sid = NoSid /\ last'.init
             /\ transports' = transports
        /\ (DOMAIN transports') \ (DOMAIN transports) # {}
          => /\ last'.step = "initHandled"
             /\ (DOMAIN transports') \ (DOMAIN transports) = {last'.newSid}
             /\ tobj[transports'[last'.newSid]].sessionId = NoSid
             /\ Len(tobj') = Len(tobj)
        /\ (last'.step \in {"GET", "DELETE"}
              \/ (last'.step = "POST" /\ last'.sid # NoSid))
          => /\ (DOMAIN transports') \subseteq (DOMAIN transports)
             /\ Len(tobj') = Len(tobj)
             /\ { r \in inflight' : r.kind = "init" }
                  \subseteq { r \in inflight : r.kind = "init" } ]_vars

\* A POST with an unknown session header and an initialization body was
\* refused while a session exists, and the map is as it was.
C22_Witness ==
    /\ last.step = "POST" /\ last.sid # NoSid /\ last.init /\ last.accepted
    /\ last.owner = NoTransport
    /\ last.status = 400
    /\ transports = last.before /\ DOMAIN transports # {}
    /\ Len(tobj) < MaxTransports


(***************************************************************************)
(* Termination (checked under the specifications with fairness).           *)
(***************************************************************************)
\* C21: no operation blocks indefinitely: every operation call or resource
\* read accepted on a live session eventually gets its response, or is
\* ended by its client (a disconnection, the end of the session).
C21_EveryRequestAnswered ==
    \A r \in PostItems : (r \in inflight) ~> (r \notin inflight)

\* Termination on the side of the file system: a handler that awaits
\* loadComponents always resumes and answers, also when the root directory
\* or files cannot be read.
LoadsTerminate == (calls # {}) ~> (calls = {} /\ result.step = "return")

====
